---- MODULE Spec2Model ----
(***************************************************************************)
(* A model of the expression evaluator of scheme/scheme.py and of the     *)
(* read-eval-print loop of scheme/interpreter.py, as CPython 3.11 runs     *)
(* them.                                                                   *)
(*                                                                         *)
(* A Python str is a sequence of one-character strings, over the ASCII     *)
(* characters.  A Python value is a record tagged by its type: an int is   *)
(* a sign and a magnitude of any size, a float is the IEEE 754 double it   *)
(* is, a Lambda carries the identity of its object.  An environment (a     *)
(* dict) is a function from keys to values.  An operation that can raise   *)
(* returns a record whose err field names the exception class ("none"      *)
(* when it returns normally).                                              *)
(***************************************************************************)
EXTENDS Integers, Sequences, FiniteSets, TLC

VARIABLES
  expr,     \* the expression last given to parse or evaluate
  env,      \* the environment dict
  pc,       \* where the program is
  parsed,   \* the outcome of the last parse
  result,   \* the outcome of the last evaluate
  call      \* the last direct call of a Lambda and its outcome

vars == <<expr, env, pc, parsed, result, call>>

(***************************************************************************)
(* Bounds of the model.                                                    *)
(***************************************************************************)
\* longest input string of the word-splitter specification
MaxLen == 6
\* deepest nesting of evaluate within evaluate that the model follows, the
\* evaluation of a line being at depth 1, that of a word of its form or of
\* the body of a Lambda it calls at depth 2
MaxNesting == 8
\* most argument values of a direct call of a Lambda
MaxArgs == 2
\* most Lambda objects the environment of the loop has as keys
MaxLambdaKeys == 2

\* The outcome of a computation that leaves what the model follows: an
\* evaluation nested deeper than MaxNesting, a float outside the range of the
\* normal doubles, a str too long to build.  It is no exception of Python,
\* and no action takes a step with this outcome.
Beyond == "beyond"

(***************************************************************************)
(* Characters and strings.                                                 *)
(***************************************************************************)
\* scheme.py:156-160, the locals of parse
start_token == "("
end_token == ")"
skip_chars == {" ", "\t", "\n"}
delimiters == skip_chars \cup {start_token, end_token}

\* the control characters VT (0x0b), FS (0x1c), GS (0x1d), RS (0x1e) and
\* US (0x1f), each written as itself between the quotes
VT == ""
FS == ""
GS == ""
RS == ""
US == ""

\* what \s, \d and \w of Python's re match in a str, among ASCII characters
re_space == {" ", "\t", "\n", "\r", "\f", VT, FS, GS, RS, US}
re_digit == {"0", "1", "2", "3", "4", "5", "6", "7", "8", "9"}
re_word == re_digit \cup
  {"a", "b", "c", "d", "e", "f", "g", "h", "i", "j", "k", "l", "m",
   "n", "o", "p", "q", "r", "s", "t", "u", "v", "w", "x", "y", "z",
   "A", "B", "C", "D", "E", "F", "G", "H", "I", "J", "K", "L", "M",
   "N", "O", "P", "Q", "R", "S", "T", "U", "V", "W", "X", "Y", "Z", "_"}

\* the white space int() and float() strip from an ASCII str
py_space == {" ", "\t", "\n", "\r", "\f", VT}

\* c in s, for a character c and a str s
Contains(s, c) == \E i \in 1..Len(s) : s[i] = c

(***************************************************************************)
(* parse: the word splitter (scheme.py:148-187).                           *)
(***************************************************************************)
ParseOk(ws) == [err |-> "none", words |-> ws]
ParseError == [err |-> "SyntaxError", words |-> <<>>]

\* ParseStep with line 174 keeping no white space inside a group
ParseStep_DropInnerSpace(expression, i, st) ==
  LET t == expression[i]
      depth1 == IF t = end_token THEN st.depth - 1 ELSE st.depth
      next1 == IF t = start_token THEN st.next_depth + 1
               ELSE IF t = end_token THEN depth1 ELSE st.next_depth
      word1 == IF t \notin skip_chars THEN Append(st.word, t) ELSE st.word
      next_terminates == i = Len(expression) \/ expression[i + 1] \in delimiters
      emit == /\ depth1 = 0
              /\ (t = end_token \/ (t \notin delimiters /\ next_terminates))
  IN [words |-> IF emit THEN Append(st.words, word1) ELSE st.words,
      word |-> IF emit THEN <<>> ELSE word1,
      depth |-> next1,
      next_depth |-> next1]

\* ParseStep with line 178 ending a word at a ")" only before a terminator
\* that is not a "("
ParseStep_GroupNeedsSeparator(expression, i, st) ==
  LET t == expression[i]
      depth1 == IF t = end_token THEN st.depth - 1 ELSE st.depth
      next1 == IF t = start_token THEN st.next_depth + 1
               ELSE IF t = end_token THEN depth1 ELSE st.next_depth
      word1 == IF depth1 > 0 \/ t \notin skip_chars
               THEN Append(st.word, t) ELSE st.word
      next_terminates == i = Len(expression) \/ expression[i + 1] \in delimiters
      next_separates ==
        i = Len(expression) \/ expression[i + 1] \in delimiters \ {start_token}
      emit == /\ depth1 = 0
              /\ \/ (t = end_token /\ next_separates)
                 \/ (t \notin delimiters /\ next_terminates)
  IN [words |-> IF emit THEN Append(st.words, word1) ELSE st.words,
      word |-> IF emit THEN <<>> ELSE word1,
      depth |-> next1,
      next_depth |-> next1]

\* One iteration of the loop of parse, lines 166-182, on character i
\* (1-based) with the loop's locals st = [words, word, depth, next_depth].
ParseStep(expression, i, st) ==
  LET t == expression[i]
      depth1 == IF t = end_token THEN st.depth - 1 ELSE st.depth
      next1 == IF t = start_token THEN st.next_depth + 1
               ELSE IF t = end_token THEN depth1 ELSE st.next_depth
      word1 == IF depth1 > 0 \/ t \notin skip_chars
               THEN Append(st.word, t) ELSE st.word
      next_terminates == i = Len(expression) \/ expression[i + 1] \in delimiters
      emit == /\ depth1 = 0
              /\ (t = end_token \/ (t \notin delimiters /\ next_terminates))
  IN [words |-> IF emit THEN Append(st.words, word1) ELSE st.words,
      word |-> IF emit THEN <<>> ELSE word1,
      depth |-> next1,
      next_depth |-> next1]

\* the only element of a one-element set
Only(S) == CHOOSE x \in S : TRUE

\* The loop of parse over the characters lo..hi, from the locals st.  The
\* range is run as two halves, the second from the locals the first leaves,
\* which keeps the evaluation of a long string shallow.
RECURSIVE ParseLoop(_, _, _, _)
ParseLoop(expression, lo, hi, st) ==
  IF lo > hi THEN st
  ELSE IF lo = hi THEN ParseStep(expression, lo, st)
  ELSE LET mid == (lo + hi) \div 2
       IN Only({ParseLoop(expression, mid + 1, hi, half) :
                  half \in {ParseLoop(expression, lo, mid, st)}})

parse(expression) ==
  LET End(st) == IF st.depth # 0 THEN ParseError ELSE ParseOk(st.words)
  IN IF Len(expression) = 0 THEN ParseOk(<<expression>>)
     ELSE End(ParseLoop(expression, 1, Len(expression),
                [words |-> <<>>, word |-> <<>>, depth |-> 0, next_depth |-> 0]))


(***************************************************************************)
(* Natural numbers of any size, for Python's int and for the arithmetic of *)
(* its float.  A natural number is the sequence of its digits in base      *)
(* Radix, the least significant first, with no zero as its last digit;     *)
(* zero is the empty sequence.                                             *)
(***************************************************************************)
RadixBits == 15
Radix == 2^RadixBits

Max(S) == CHOOSE x \in S : \A y \in S : y <= x
Min(S) == CHOOSE x \in S : \A y \in S : x <= y

\* a without zero digits at its most significant end
NatTrim(a) ==
  LET nz == {i \in 1..Len(a) : a[i] # 0}
  IN IF nz = {} THEN <<>> ELSE SubSeq(a, 1, Max(nz))

\* the natural number n, for n below Radix^2 * 2
NatOf(n) == NatTrim(<<n % Radix, (n \div Radix) % Radix, n \div (Radix * Radix)>>)

\* the number a of at most two digits
NatToInt(a) ==
  (IF Len(a) >= 1 THEN a[1] ELSE 0) + (IF Len(a) >= 2 THEN Radix * a[2] ELSE 0)

NatDigit(a, i) == IF i <= Len(a) THEN a[i] ELSE 0

NatLess(a, b) ==
  IF Len(a) # Len(b) THEN Len(a) < Len(b)
  ELSE \E i \in 1..Len(a) :
         a[i] < b[i] /\ \A j \in (i + 1)..Len(a) : a[j] = b[j]

\* The operators below work through the digits lo..hi of their operands, a
\* range of several digits as two halves, the second from what the first
\* hands over, which keeps the evaluation of a long number shallow.  The
\* operators on whole numbers take their operands as values x and y before
\* they start on the digits.

\* digits lo..hi of a + b + carry and the carry out of them: [d, c]
RECURSIVE NatAddRange(_, _, _, _, _)
NatAddRange(a, b, lo, hi, carry) ==
  LET t == NatDigit(a, lo) + NatDigit(b, lo) + carry
      Both(low, high) == [d |-> low.d \o high.d, c |-> high.c]
  IN IF lo > hi THEN [d |-> <<>>, c |-> carry]
     ELSE IF lo = hi THEN [d |-> <<t % Radix>>, c |-> t \div Radix]
     ELSE Only({Both(low, NatAddRange(a, b, (lo + hi) \div 2 + 1, hi, low.c)) :
                  low \in {NatAddRange(a, b, lo, (lo + hi) \div 2, carry)}})

NatAdd(a, b) ==
  LET Whole(r) == IF r.c = 0 THEN r.d ELSE Append(r.d, r.c)
  IN Only({Whole(NatAddRange(x, y, 1, Max({Len(x), Len(y)}), 0)) :
             x \in {a}, y \in {b}})

\* digits lo..hi of a - b - borrow and the borrow out of them, for a >= b
RECURSIVE NatSubRange(_, _, _, _, _)
NatSubRange(a, b, lo, hi, borrow) ==
  LET t == a[lo] - NatDigit(b, lo) - borrow
      Both(low, high) == [d |-> low.d \o high.d, c |-> high.c]
  IN IF lo > hi THEN [d |-> <<>>, c |-> borrow]
     ELSE IF lo = hi THEN [d |-> <<t % Radix>>, c |-> IF t < 0 THEN 1 ELSE 0]
     ELSE Only({Both(low, NatSubRange(a, b, (lo + hi) \div 2 + 1, hi, low.c)) :
                  low \in {NatSubRange(a, b, lo, (lo + hi) \div 2, borrow)}})

NatSub(a, b) ==
  Only({NatTrim(NatSubRange(x, y, 1, Len(x), 0).d) : x \in {a}, y \in {b}})

\* digits lo..hi of a * k + carry and the carry out of them, for a digit k
RECURSIVE NatScaleRange(_, _, _, _, _)
NatScaleRange(a, k, lo, hi, carry) ==
  LET t == a[lo] * k + carry
      Both(low, high) == [d |-> low.d \o high.d, c |-> high.c]
  IN IF lo > hi THEN [d |-> <<>>, c |-> carry]
     ELSE IF lo = hi THEN [d |-> <<t % Radix>>, c |-> t \div Radix]
     ELSE Only({Both(low, NatScaleRange(a, k, (lo + hi) \div 2 + 1, hi, low.c)) :
                  low \in {NatScaleRange(a, k, lo, (lo + hi) \div 2, carry)}})

NatScale(a, k) ==
  LET Whole(r) == NatTrim(IF r.c = 0 THEN r.d ELSE Append(r.d, r.c))
  IN Only({Whole(NatScaleRange(x, k, 1, Len(x), 0)) : x \in {a}})

\* a * Radix^n
NatShiftDigits(a, n) ==
  Only({IF x = <<>> THEN <<>> ELSE [i \in 1..n |-> 0] \o x : x \in {a}})

\* a times the number the digits lo..hi of b write
RECURSIVE NatMulRange(_, _, _, _)
NatMulRange(a, b, lo, hi) ==
  IF lo > hi THEN <<>>
  ELSE IF lo = hi THEN NatScale(a, b[lo])
  ELSE NatAdd(NatMulRange(a, b, lo, (lo + hi) \div 2),
              NatShiftDigits(NatMulRange(a, b, (lo + hi) \div 2 + 1, hi),
                             (lo + hi) \div 2 - lo + 1))

NatMul(a, b) == Only({NatMulRange(x, y, 1, Len(y)) : x \in {a}, y \in {b}})

\* The division of a by k, for 0 < k <= Radix, from the most significant
\* digit down: the digits lo..hi of the quotient and the remainder they
\* leave, rem being the remainder the digits above hi left: [q, r]
RECURSIVE NatDivRange(_, _, _, _, _)
NatDivRange(a, k, lo, hi, rem) ==
  LET t == rem * Radix + a[lo]
      Both(high, low) == [q |-> low.q \o high.q, r |-> low.r]
  IN IF lo > hi THEN [q |-> <<>>, r |-> rem]
     ELSE IF lo = hi THEN [q |-> <<t \div k>>, r |-> t % k]
     ELSE Only({Both(high, NatDivRange(a, k, lo, (lo + hi) \div 2, high.r)) :
                  high \in {NatDivRange(a, k, (lo + hi) \div 2 + 1, hi, rem)}})

\* the quotient q and the remainder r of a by k, for 0 < k <= Radix
NatDivMod(a, k) ==
  LET Trimmed(d) == [q |-> NatTrim(d.q), r |-> d.r]
  IN Only({Trimmed(NatDivRange(x, k, 1, Len(x), 0)) : x \in {a}})

\* the number of binary digits of a
NatBits(a) ==
  IF a = <<>> THEN 0
  ELSE RadixBits * (Len(a) - 1)
         + (CHOOSE n \in 1..RadixBits : 2^(n - 1) <= a[Len(a)] /\ a[Len(a)] < 2^n)

\* a * 2^s and a \div 2^s
NatShl(a, s) == NatShiftDigits(NatScale(a, 2^(s % RadixBits)), s \div RadixBits)

NatShr(a, s) ==
  Only({IF s \div RadixBits >= Len(x) THEN <<>>
        ELSE NatDivMod(SubSeq(x, s \div RadixBits + 1, Len(x)), 2^(s % RadixBits)).q :
          x \in {a}})

NatOdd(a) == a # <<>> /\ a[1] % 2 = 1

\* how many times 2 divides a, for a > 0
NatTwos(a) ==
  LET i == Min({j \in 1..Len(a) : a[j] # 0})
  IN RadixBits * (i - 1)
       + (CHOOSE n \in 0..(RadixBits - 1) : a[i] % 2^n = 0 /\ a[i] % 2^(n + 1) # 0)

DigitValue(c) ==
  CASE c = "0" -> 0 [] c = "1" -> 1 [] c = "2" -> 2 [] c = "3" -> 3
    [] c = "4" -> 4 [] c = "5" -> 5 [] c = "6" -> 6 [] c = "7" -> 7
    [] c = "8" -> 8 [] c = "9" -> 9

\* 10^k
RECURSIVE NatPow10(_)
NatPow10(k) ==
  IF k <= 4 THEN NatOf(10^k)
  ELSE NatMul(NatPow10(k \div 2), NatPow10(k - k \div 2))

\* the number the decimal digits s[i..j] write (0 for none): that of the first
\* half, times the power of 10 of the second, plus that of the second
RECURSIVE DigitsValue(_, _, _)
DigitsValue(s, i, j) ==
  IF j < i THEN <<>>
  ELSE IF j = i THEN NatOf(DigitValue(s[j]))
  ELSE LET mid == (i + j) \div 2
       IN NatAdd(NatMul(DigitsValue(s, i, mid), NatPow10(j - mid)),
                 DigitsValue(s, mid + 1, j))

\* a \div 10^k, and whether the division left a remainder (or more says so):
\* by 10^k at once for a small k, else by the powers of the two halves of k
RECURSIVE NatDivPow10(_, _, _)
NatDivPow10(a, k, more) ==
  IF k <= 4
  THEN LET Once(d) == [q |-> d.q, more |-> more \/ d.r # 0]
       IN Once(NatDivMod(a, 10^k))
  ELSE Only({NatDivPow10(half.q, k - k \div 2, half.more) :
               half \in {NatDivPow10(a, k \div 2, more)}})

(***************************************************************************)
(* Values.  One record shape for every Python value the evaluator handles: *)
(*   None;                                                                 *)
(*   an int, (-1)^neg * m;                                                 *)
(*   a float, the double (-1)^neg * m * 2^x with m odd and of at most      *)
(*     Precision binary digits, or a zero (m = 0, x = 0) with its sign;    *)
(*   a str s;  the empty list;  a builtin function, named s;               *)
(*   a Lambda with its args, its expression and the identity id of the     *)
(*     object, which no other Lambda object alive has.                     *)
(***************************************************************************)
Value(t, neg, m, x, s, args, expression, id) ==
  [t |-> t, neg |-> neg, m |-> m, x |-> x, s |-> s,
   args |-> args, expression |-> expression, id |-> id]

NoneV == Value("None", FALSE, <<>>, 0, <<>>, <<>>, <<>>, <<>>)
StrV(s) == Value("str", FALSE, <<>>, 0, s, <<>>, <<>>, <<>>)
ListV == Value("list", FALSE, <<>>, 0, <<>>, <<>>, <<>>, <<>>)
BuiltinV(s) == Value("builtin", FALSE, <<>>, 0, s, <<>>, <<>>, <<>>)

\* the int of sign neg and magnitude m, and the int n
BigIntV(neg, m) == Value("int", neg /\ m # <<>>, m, 0, <<>>, <<>>, <<>>, <<>>)
IntV(n) == BigIntV(n < 0, NatOf(IF n < 0 THEN -n ELSE n))

\* the float (-1)^neg * m * 2^x, for m of at most Precision binary digits
FloatV(neg, m, x) ==
  IF m = <<>> THEN Value("float", neg, <<>>, 0, <<>>, <<>>, <<>>, <<>>)
  ELSE Value("float", neg, NatShr(m, NatTwos(m)), x + NatTwos(m),
             <<>>, <<>>, <<>>, <<>>)

\* Lambda.__init__, scheme.py:6-10: a new object, told from every other by id
Lambda(args, expression, id) ==
  Value("Lambda", FALSE, <<>>, 0, <<>>, args, expression, id)

IsNumber(v) == v.t \in {"int", "float"}

\* What a dict tells its keys by: two keys are the same key when their
\* KeyOf is.  A float that is a whole number equals the int of that number
\* (1.0 and 1, -0.0 and 0); a str equals the same str; a Lambda, which defines
\* neither __eq__ nor __hash__, equals its own object only.
KeyOf(v) ==
  IF v.t = "float" /\ (v.m = <<>> \/ v.x >= 0)
  THEN BigIntV(v.neg, NatShl(v.m, v.x))
  ELSE v

\* env[name] = val on a dict: a key the dict has keeps the object it was
\* first set with and takes the value, a new key is added
SetItem(d, key, val) ==
  LET same == {k \in DOMAIN d : KeyOf(k) = KeyOf(key)}
  IN IF same = {}
     THEN [k \in DOMAIN d \cup {key} |-> IF k = key THEN val ELSE d[k]]
     ELSE [k \in DOMAIN d |-> IF k \in same THEN val ELSE d[k]]

\* the empty dict
EmptyEnv == [k \in {} |-> NoneV]

\* Outcomes of an operation that returns a value and may change env.
Ret(v, e) == [err |-> "none", val |-> v, env |-> e]
Raise(x, e) == [err |-> x, val |-> NoneV, env |-> e]
\* Outcomes of evaluate_words: a list of values.
RetW(vs, e) == [err |-> "none", vals |-> vs, env |-> e]
RaiseW(x, e) == [err |-> x, vals |-> <<>>, env |-> e]

(***************************************************************************)
(* The arithmetic of float: IEEE 754 binary64, rounding to nearest, ties   *)
(* to even.                                                                *)
(***************************************************************************)
\* binary digits of the significand, and the exponents of the largest and of
\* the smallest normal double
Precision == 53
MaxExponent == 1023
MinExponent == -1022

\* The double nearest to (-1)^neg * (m + f) * 2^x, where 0 <= f < 1, and f > 0
\* exactly when more is TRUE (then m has more than Precision binary digits).
RoundToDouble(neg, m, x, more) ==
  LET s == NatBits(m) - Precision
      q == NatShr(m, s)
      rem == NatSub(m, NatShl(q, s))
      half == NatShl(<<1>>, s - 1)
      up == NatLess(half, rem) \/ (rem = half /\ (more \/ NatOdd(q)))
  IN IF s <= 0 THEN FloatV(neg, m, x)
     ELSE FloatV(neg, IF up THEN NatAdd(q, <<1>>) ELSE q, x + s)

\* the exponent of the leading binary digit of a float that is not zero
Exponent(v) == v.x + NatBits(v.m) - 1

\* a float is a zero or a normal double
InRange(v) == v.m = <<>> \/ (MinExponent <= Exponent(v) /\ Exponent(v) <= MaxExponent)

\* float(v) of an int or a float
ToFloat(v) == IF v.t = "float" THEN v ELSE RoundToDouble(v.neg, v.m, 0, FALSE)

\* the sum of two signed magnitudes, as [neg, m]; +0 when they cancel
SignedAdd(an, am, bn, bm) ==
  IF an = bn THEN [neg |-> an, m |-> NatAdd(am, bm)]
  ELSE IF am = bm THEN [neg |-> FALSE, m |-> <<>>]
  ELSE IF NatLess(am, bm) THEN [neg |-> bn, m |-> NatSub(bm, am)]
  ELSE [neg |-> an, m |-> NatSub(am, bm)]

\* a + b on floats.  An operand whose leading digit stands more than
\* Precision + 2 places below the other's does not change the rounded sum.
FloatAdd(a, b) ==
  LET x == IF a.x < b.x THEN a.x ELSE b.x
      Sum(r) == RoundToDouble(r.neg, r.m, x, FALSE)
  IN IF a.m = <<>> /\ b.m = <<>> THEN FloatV(a.neg /\ b.neg, <<>>, 0)
     ELSE IF a.m = <<>> THEN b
     ELSE IF b.m = <<>> THEN a
     ELSE IF Exponent(a) - Exponent(b) > Precision + 2 THEN a
     ELSE IF Exponent(b) - Exponent(a) > Precision + 2 THEN b
     ELSE Sum(SignedAdd(a.neg, NatShl(a.m, a.x - x), b.neg, NatShl(b.m, b.x - x)))

\* a * b on floats
FloatMul(a, b) ==
  RoundToDouble(a.neg # b.neg, NatMul(a.m, b.m), a.x + b.x, FALSE)

(***************************************************************************)
(* The lexical classifier.                                                 *)
(***************************************************************************)
\* the length of the longest prefix of s from position i made of chars of S
Span(s, i, S) ==
  LET ends == {j \in i..Len(s) : s[j] \notin S}
  IN IF i > Len(s) THEN 0
     ELSE IF ends = {} THEN Len(s) - i + 1
     ELSE Min(ends) - i

\* re.match(r"^\s*\.\s*$", s)
MatchesBareDot(s) ==
  LET a == Span(s, 1, re_space)
  IN /\ a + 1 <= Len(s)
     /\ s[a + 1] = "."
     /\ a + 1 + Span(s, a + 2, re_space) = Len(s)

\* re.match(r"^\s*\d*(\.)?\d*\s*$", s)
MatchesNumber(s) ==
  LET a == Span(s, 1, re_space)
      b == a + Span(s, a + 1, re_digit)
      c == IF b + 1 <= Len(s) /\ s[b + 1] = "." THEN b + 1 ELSE b
      d == c + Span(s, c + 1, re_digit)
  IN d + Span(s, d + 1, re_space) = Len(s)

is_numeric_literal(expression) ==
  IF Len(expression) = 0 THEN FALSE
  ELSE IF expression[1] \notin re_digit \cup {"."} THEN FALSE
  ELSE IF MatchesBareDot(expression) THEN FALSE
  ELSE MatchesNumber(expression)

is_string_literal(expression) ==
  IF Len(expression) < 2 THEN FALSE
  ELSE expression[1] = "\"" /\ expression[Len(expression)] = "\""

is_primitive(expression) ==
  is_numeric_literal(expression) \/ is_string_literal(expression)
    \/ Len(expression) = 0

\* float(exp) on digits, a point, digits: the double nearest to the decimal
\* n / 10^k, n the number all the digits write and k the count of those after
\* the point.  n is first scaled by a power of 2 that leaves the quotient more
\* than Precision + 1 binary digits.
ParseFloat(exp) ==
  LET b == Span(exp, 1, re_digit)
      k == Span(exp, b + 2, re_digit)
      n == DigitsValue(SubSeq(exp, 1, b) \o SubSeq(exp, b + 2, b + 1 + k), 1, b + k)
      s == IF Precision + 3 + 4 * k > NatBits(n)
           THEN Precision + 3 + 4 * k - NatBits(n) ELSE 0
      Rounded(d) == RoundToDouble(FALSE, d.q, 0 - s, d.more)
  IN IF n = <<>> THEN FloatV(FALSE, <<>>, 0)
     ELSE Rounded(NatDivPow10(NatShl(n, s), k, FALSE))

\* the most digits of a str that int() converts (the interpreter's limit on
\* the conversion between int and str, sys.int_info.default_max_str_digits)
MaxStrDigits == 4300

\* On a str that is_numeric_literal accepts: digits, an optional point, digits,
\* then white space.  int() and float() strip the white space of py_space and
\* raise ValueError on any other character; int() raises ValueError on more
\* than MaxStrDigits digits, leading zeros counted, and float() has no limit.
evaluate_numeric_literal(exp, e) ==
  LET b == Span(exp, 1, re_digit)
      AsFloat(v) == IF InRange(v) THEN Ret(v, e) ELSE Raise(Beyond, e)
  IN IF \E i \in 1..Len(exp) : exp[i] \in re_space \ py_space
     THEN Raise("ValueError", e)
     ELSE IF Contains(exp, ".") THEN AsFloat(ParseFloat(exp))
     ELSE IF b > MaxStrDigits THEN Raise("ValueError", e)
     ELSE Ret(BigIntV(FALSE, DigitsValue(exp, 1, b)), e)

evaluate_string_literal(exp) ==
  IF Len(exp) <= 2 THEN <<>> ELSE SubSeq(exp, 2, Len(exp) - 1)

evaluate_primitive(expression, e) ==
  IF Len(expression) = 0 THEN Ret(NoneV, e)
  ELSE IF is_numeric_literal(expression)
       THEN evaluate_numeric_literal(expression, e)
  ELSE IF is_string_literal(expression)
       THEN Ret(StrV(evaluate_string_literal(expression)), e)
  ELSE Raise("SyntaxError", e)

(***************************************************************************)
(* The builtin registry (scheme.py:69-93).                                 *)
(***************************************************************************)
PLUS == <<"+">>
MINUS == <<"-">>
TIMES == <<"*">>
DEFINE_SYM == <<"d", "e", "f", "i", "n", "e">>

\* the keys of BUILTIN_OPS
BUILTIN_OPS == {PLUS, MINUS, TIMES, DEFINE_SYM}

is_builtin(exp) == exp \in BUILTIN_OPS

get_builtin(exp) == BuiltinV(exp)

\* Python's a + b (a - b when minus) on two numbers: on two ints it is an
\* int; with a float, both are taken as floats, and an int too large for a
\* float raises OverflowError
NumAdd(a, b, minus, e) ==
  LET AsFloat(v) == IF InRange(v) THEN Ret(v, e) ELSE Raise(Beyond, e)
      AsInt(r) == Ret(BigIntV(r.neg, r.m), e)
      Signed(v) == [v EXCEPT !.neg = (v.neg # minus)]
  IN IF a.t = "int" /\ b.t = "int"
     THEN AsInt(SignedAdd(a.neg, a.m, b.neg # minus, b.m))
     ELSE IF ~InRange(ToFloat(a)) \/ ~InRange(ToFloat(b))
          THEN Raise("OverflowError", e)
     ELSE AsFloat(FloatAdd(ToFloat(a), Signed(ToFloat(b))))

PyAdd(a, b, e) ==
  IF IsNumber(a) /\ IsNumber(b) THEN NumAdd(a, b, FALSE, e)
  ELSE Raise("TypeError", e)

PySub(a, b, e) ==
  IF IsNumber(a) /\ IsNumber(b) THEN NumAdd(a, b, TRUE, e)
  ELSE Raise("TypeError", e)

\* a str repeated k times
RECURSIVE Repeat(_, _)
Repeat(s, k) ==
  IF k <= 0 THEN <<>>
  ELSE IF k = 1 THEN s
  ELSE Repeat(s, k \div 2) \o Repeat(s, k - k \div 2)

\* binary digits of the magnitude of the greatest index-sized integer
\* (Py_ssize_t, 64 bits with the sign)
IndexBits == 63

\* the int k fits an index-sized integer: -2^IndexBits <= k < 2^IndexBits
FitsIndex(k) ==
  \/ NatBits(k.m) <= IndexBits
  \/ (k.neg /\ k.m = NatShl(<<1>>, IndexBits))

\* s * k for a str s and an int k: the count is made an index-sized integer
\* first, whatever s is
StrMul(s, k, e) ==
  IF ~FitsIndex(k) THEN Raise("OverflowError", e)
  ELSE IF k.neg \/ k.m = <<>> \/ s = <<>> THEN Ret(StrV(<<>>), e)
  ELSE IF Len(k.m) > 1 THEN Raise(Beyond, e)
  ELSE Ret(StrV(Repeat(s, NatToInt(k.m))), e)

\* [] * k for the empty list and an int k
ListMul(k, e) ==
  IF ~FitsIndex(k) THEN Raise("OverflowError", e) ELSE Ret(ListV, e)

\* Python's a * b on two numbers
NumMul(a, b, e) ==
  LET AsFloat(v) == IF InRange(v) THEN Ret(v, e) ELSE Raise(Beyond, e)
  IN IF a.t = "int" /\ b.t = "int"
     THEN Ret(BigIntV(a.neg # b.neg, NatMul(a.m, b.m)), e)
     ELSE IF ~InRange(ToFloat(a)) \/ ~InRange(ToFloat(b))
          THEN Raise("OverflowError", e)
     ELSE AsFloat(FloatMul(ToFloat(a), ToFloat(b)))

PyMul(a, b, e) ==
  IF IsNumber(a) /\ IsNumber(b) THEN NumMul(a, b, e)
  ELSE IF a.t = "int" /\ b.t = "str" THEN StrMul(b.s, a, e)
  ELSE IF a.t = "str" /\ b.t = "int" THEN StrMul(a.s, b, e)
  ELSE IF a.t = "int" /\ b.t = "list" THEN ListMul(a, e)
  ELSE IF a.t = "list" /\ b.t = "int" THEN ListMul(b, e)
  ELSE Raise("TypeError", e)

\* sum(args), from acc: the fold of Python's + over args[i..]
RECURSIVE SumFrom(_, _, _, _)
SumFrom(acc, args, i, e) ==
  IF i > Len(args) THEN Ret(acc, e)
  ELSE LET Rest(r) == IF r.err # "none" THEN r ELSE SumFrom(r.val, args, i + 1, e)
       IN Rest(PyAdd(acc, args[i], e))

add(args, e) == SumFrom(IntV(0), args, 1, e)

sub(args, e) ==
  LET Minus(r) == IF r.err # "none" THEN r ELSE PySub(args[1], r.val, e)
  IN Minus(SumFrom(IntV(0), args, 2, e))

RECURSIVE MulFrom(_, _, _, _)
MulFrom(p, args, i, e) ==
  IF i > Len(args) THEN Ret(p, e)
  ELSE LET Rest(r) == IF r.err # "none" THEN r ELSE MulFrom(r.val, args, i + 1, e)
       IN Rest(PyMul(p, args[i], e))

mul(args, e) == MulFrom(IntV(1), args, 1, e)

\* name, val = args raises ValueError unless there are two; a list is no key
define(args, e) ==
  IF Len(args) # 2 THEN Raise("ValueError", e)
  ELSE IF args[1].t = "list" THEN Raise("TypeError", e)
  ELSE Ret(args[2], SetItem(e, args[1], args[2]))

is_function(obj) == obj.t \in {"builtin", "Lambda"}

lookup_variable(exp, e) ==
  IF StrV(exp) \in DOMAIN e THEN Ret(e[StrV(exp)], e)
  ELSE Raise("SyntaxError", e)

evaluate_simple(exp, e) ==
  IF is_primitive(exp) THEN evaluate_primitive(exp, e)
  ELSE IF is_builtin(exp) THEN Ret(get_builtin(exp), e)
  ELSE lookup_variable(exp, e)

\* re.match(r"^\w*$", name): $ also matches before a final newline
is_valid_variable_name(name) ==
  IF is_builtin(name) THEN FALSE
  ELSE LET k == Span(name, 1, re_word)
       IN k = Len(name) \/ (k + 1 = Len(name) /\ name[k + 1] = "\n")

\* on a non-empty str (on the empty one the indexing raises IndexError)
is_function_call(expression) ==
  expression[1] = "(" /\ expression[Len(expression)] = ")"

\* sweep_for(expression, seeking, +1) and (..., -1): a 1-based index, 0 if absent
IndexOf(s, c) ==
  IF Contains(s, c)
  THEN CHOOSE i \in 1..Len(s) : s[i] = c /\ \A j \in 1..(i - 1) : s[j] # c
  ELSE 0

LastIndexOf(s, c) ==
  IF Contains(s, c)
  THEN CHOOSE i \in 1..Len(s) : s[i] = c /\ \A j \in (i + 1)..Len(s) : s[j] # c
  ELSE 0

\* strip: [err, s]
strip(expression) ==
  LET i_open == IndexOf(expression, "(")
      i_close == LastIndexOf(expression, ")")
  IN IF i_open = 0 \/ i_close = 0 THEN [err |-> "SyntaxError", s |-> <<>>]
     ELSE [err |-> "none",
           s |-> IF i_open + 1 > i_close - 1 THEN <<>>
                 ELSE SubSeq(expression, i_open + 1, i_close - 1)]

(***************************************************************************)
(* The evaluator (scheme.py:189-255) and Lambda.evaluate (scheme.py:12-26).*)
(*                                                                         *)
(* The last parameter fr of its operators is the place of the evaluation   *)
(* in progress: fr.at is the path to it from the evaluation that began it  *)
(* all (i for the i-th word of a form, 0 for the body of a Lambda called), *)
(* and fr.calls are the Lambda calls in progress, each with its arguments  *)
(* and its environment.  A Lambda object constructed takes the path of its *)
(* place as id: no two places of one evaluation have the same path, and no *)
(* Lambda object of the environment it began in has such a path as id.     *)
(***************************************************************************)
\* the Lambda objects an environment holds, as keys or as values
Lambdas(e) == {v \in DOMAIN e \cup {e[k] : k \in DOMAIN e} : v.t = "Lambda"}

\* the place of an evaluation that begins in the environment e: its paths
\* start with a number that starts no id of a Lambda object e holds
Begin(e) ==
  [at |-> <<1 + Max({0} \cup {v.id[1] : v \in Lambdas(e)})>>, calls |-> {}]

\* the place of the i-th word of the form at fr
Sub(fr, i) == [fr EXCEPT !.at = Append(@, i)]

\* self(arg_values, env) as fr.calls keeps it
CallOf(self, arg_values, e) == <<self, arg_values, e>>

\* the place of the body of self, called at fr
BodyFrame(fr, self, arg_values, e) ==
  [at |-> Append(fr.at, 0), calls |-> fr.calls \cup {CallOf(self, arg_values, e)}]

\* local_env of Lambda.evaluate: {**env} updated with dict(zip(args, arg_values)),
\* where a later parameter of the same name wins
LocalEnv(e, args, arg_values) ==
  LET keys == {StrV(args[i]) : i \in 1..Len(args)}
      last(k) == CHOOSE i \in 1..Len(args) :
                   /\ StrV(args[i]) = k
                   /\ \A j \in (i + 1)..Len(args) : StrV(args[j]) # k
  IN [k \in DOMAIN e \cup keys |-> IF k \in keys THEN arg_values[last(k)] ELSE e[k]]

RECURSIVE evaluate(_, _, _)
RECURSIVE evaluate_words(_, _, _)
RECURSIVE EvaluateEach(_, _, _, _, _)
RECURSIVE combine(_, _, _)
RECURSIVE LambdaEvaluate(_, _, _, _)

\* Lambda.evaluate with the caller's bindings laid over the parameters
LambdaEvaluate_EnvShadowsArgs(self, arg_values, e, fr) ==
  IF Len(arg_values) # Len(self.args) THEN Raise("ValueError", e)
  ELSE IF CallOf(self, arg_values, e) \in fr.calls THEN Raise("RecursionError", e)
  ELSE LET bound == LocalEnv(e, self.args, arg_values)
           local_env == [k \in DOMAIN bound |-> IF k \in DOMAIN e THEN e[k] ELSE bound[k]]
           r == evaluate(self.expression, local_env, BodyFrame(fr, self, arg_values, e))
       IN [r EXCEPT !.env = e]

\* Lambda.evaluate writing the caller's dict instead of a copy (local_env = env)
LambdaEvaluate_NoCopy(self, arg_values, e, fr) ==
  IF Len(arg_values) # Len(self.args) THEN Raise("ValueError", e)
  ELSE IF CallOf(self, arg_values, e) \in fr.calls THEN Raise("RecursionError", e)
  ELSE evaluate(self.expression, LocalEnv(e, self.args, arg_values),
                BodyFrame(fr, self, arg_values, e))

\* Lambda.evaluate(self, arg_values, env); the env of the outcome is the
\* caller's dict, which the call never writes (it writes local_env, a copy).
\* A call of self in progress with these arguments and this environment
\* leads to this one again, and so on until Python's stack is exhausted and
\* RecursionError is raised, which nothing in the evaluator catches.  A
\* nesting that does not repeat exhausts the stack as well, three frames of
\* Python's 1000 to a level of forms, far deeper than MaxNesting.
LambdaEvaluate(self, arg_values, e, fr) ==
  IF Len(arg_values) # Len(self.args) THEN Raise("ValueError", e)
  ELSE IF CallOf(self, arg_values, e) \in fr.calls THEN Raise("RecursionError", e)
  ELSE LET local_env == LocalEnv(e, self.args, arg_values)
           r == evaluate(self.expression, local_env, BodyFrame(fr, self, arg_values, e))
       IN [r EXCEPT !.env = e]

\* op(args, env) for a callable op
Apply(op, args, e, fr) ==
  IF op.t = "Lambda" THEN LambdaEvaluate(op, args, e, fr)
  ELSE IF op.s = PLUS THEN add(args, e)
  ELSE IF op.s = MINUS THEN sub(args, e)
  ELSE IF op.s = TIMES THEN mul(args, e)
  ELSE define(args, e)

combine(results, e, fr) ==
  IF Len(results) = 1 THEN Ret(results[1], e)
  ELSE IF Len(results) = 0 THEN Raise("IndexError", e)
  ELSE LET op == results[1]
           args == Tail(results)
       IN IF is_function(op) THEN Apply(op, args, e, fr)
          ELSE Ret(args[Len(args)], e)

\* [evaluate(subexp, env) for subexp in words], from word i on, left to right
EvaluateEach(words, i, acc, e, fr) ==
  IF i > Len(words) THEN RetW(acc, e)
  ELSE LET Rest(r) ==
             IF r.err # "none" THEN RaiseW(r.err, r.env)
             ELSE EvaluateEach(words, i + 1, Append(acc, r.val), r.env, fr)
       IN Rest(evaluate(words[i], e, Sub(fr, i)))

\* lines 217-235 of evaluate_words: the define form
EvaluateDefine(words, e, fr) ==
  LET name == words[2]
      \* line 234-235, with the name and the value in hand
      Triple(def, nm, val) ==
        IF def.err # "none" THEN RaiseW(def.err, def.env)
        ELSE RetW(<<def.val, StrV(nm), val>>, def.env)
      \* lines 225-228, with name_words in hand
      Function(name_words) ==
        IF name_words.err # "none" THEN RaiseW("SyntaxError", e)
        ELSE IF Len(name_words.words) = 0 THEN RaiseW("IndexError", e)
        ELSE Triple(evaluate(words[1], e, Sub(fr, 1)), Head(name_words.words),
                    Lambda(Tail(name_words.words), words[3], fr.at))
      \* lines 233-235, with the outcome of evaluate(words[2], env) in hand
      Variable(val) ==
        IF val.err # "none" THEN RaiseW(val.err, val.env)
        ELSE Triple(evaluate(words[1], val.env, Sub(fr, 1)), name, val.val)
  IN IF Len(words) # 3 THEN RaiseW("SyntaxError", e)
     ELSE IF is_function_call(name) THEN Function(parse(strip(name).s))
     ELSE IF ~is_valid_variable_name(name) THEN RaiseW("SyntaxError", e)
     ELSE Variable(evaluate(words[3], e, Sub(fr, 3)))

evaluate_words(expression, e, fr) ==
  LET Simple(r) == IF r.err # "none" THEN RaiseW(r.err, e) ELSE RetW(<<r.val>>, e)
      Words(p) ==
        IF p.err # "none" THEN RaiseW(p.err, e)
        ELSE IF Len(p.words) = 0 THEN RetW(<<>>, e)
        ELSE IF Len(p.words) = 1 THEN Simple(evaluate_simple(expression, e))
        ELSE IF p.words[1] = DEFINE_SYM THEN EvaluateDefine(p.words, e, fr)
        ELSE EvaluateEach(p.words, 1, <<>>, e, fr)
  IN Words(parse(expression))

evaluate(expression, e, fr) ==
  LET Combined(inner_words) ==
        IF inner_words.err # "none" THEN Raise(inner_words.err, inner_words.env)
        ELSE combine(inner_words.vals, inner_words.env, fr)
      Final(results) ==
        IF results.err # "none" THEN Raise(results.err, results.env)
        ELSE IF Len(results.vals) = 0 THEN Ret(ListV, results.env)
        ELSE Ret(results.vals[Len(results.vals)], results.env)
  IN IF Len(fr.at) > MaxNesting THEN Raise(Beyond, e)
     ELSE IF Len(expression) = 0 THEN Raise("IndexError", e)
     ELSE IF is_function_call(expression)
          THEN Combined(evaluate_words(strip(expression).s, e, fr))
     ELSE Final(evaluate_words(expression, e, fr))

(***************************************************************************)
(* The identity of the Lambda objects from one evaluation to the next.     *)
(* Python tells objects apart by their addresses, which mean nothing else; *)
(* when a turn of the loop is over, the Lambda objects the environment     *)
(* holds are numbered anew, those of the same args and expression 1, 2 and *)
(* so on in the order of their ids.  An object keeps the args, the         *)
(* expression and the place among its likes that it had.                   *)
(***************************************************************************)
\* the order of the dictionary on paths
PathLess(p, q) ==
  \E i \in 1..Len(q) :
    /\ \A j \in 1..(i - 1) : j <= Len(p) /\ p[j] = q[j]
    /\ (i = Len(p) + 1 \/ (i <= Len(p) /\ p[i] < q[i]))

\* the number of the Lambda object v among those e holds
Rank(v, e) ==
  1 + Cardinality({u \in Lambdas(e) :
                     /\ u.args = v.args
                     /\ u.expression = v.expression
                     /\ PathLess(u.id, v.id)})

\* a value as it is known once the evaluation that left e is over
Settled(v, e) ==
  IF v.t = "Lambda" /\ v \in Lambdas(e) THEN [v EXCEPT !.id = <<Rank(v, e)>>]
  ELSE v

\* the environment e with its Lambda objects numbered anew
Settle(e) ==
  [k \in {Settled(j, e) : j \in DOMAIN e} |->
     Settled(e[CHOOSE j \in DOMAIN e : Settled(j, e) = k], e)]

(***************************************************************************)
(* Inputs.                                                                 *)
(***************************************************************************)
\* words joined by single spaces
RECURSIVE Join(_)
Join(ws) ==
  IF Len(ws) = 0 THEN <<>>
  ELSE IF Len(ws) = 1 THEN ws[1]
  ELSE ws[1] \o <<" ">> \o Join(Tail(ws))

\* the compound form ( w1 w2 ... )
Form(ws) == <<"(">> \o Join(ws) \o <<")">>

\* every str over the alphabet A of length at most n
StringsUpTo(A, n) == UNION {[1..k -> A] : k \in 0..n}

PureAlphabet == {"(", ")", " ", "a"}
PureEnvs == {EmptyEnv, SetItem(EmptyEnv, StrV(<<"a">>), IntV(1))}

ReplInputs ==
  { <<>>,
    <<"a">>,
    <<"5">>,
    <<"5", VT>>,
    <<"5", FS>>,
    Form(<<DEFINE_SYM, <<"a">>, <<"1">>>>),
    Form(<<DEFINE_SYM, <<"5">>, <<"7">>>>),
    Form(<<DEFINE_SYM>>),
    Form(<<DEFINE_SYM, <<"a">>, <<"1">>, <<"2">>>>),
    Form(<<DEFINE_SYM, Form(<<PLUS, <<"x">>>>), <<"x">>>>),
    Form(<<DEFINE_SYM, Form(<<<<"f">>, <<"x">>>>), Form(<<PLUS, <<"x">>, <<"a">>>>)>>),
    Form(<<DEFINE_SYM, Form(<<<<"g">>, <<"a">>>>), Form(<<<<"f">>, <<"1">>>>)>>),
    Form(<<DEFINE_SYM, Form(<<<<"h">>, <<"x">>>>),
           Form(<<DEFINE_SYM, <<"a">>, <<"x">>>>)>>),
    Form(<<DEFINE_SYM, Form(<<<<"r">>, <<"x">>>>), Form(<<<<"r">>, <<"x">>>>)>>),
    Form(<<Form(<<DEFINE_SYM>>), Form(<<DEFINE_SYM, Form(<<<<"k">>>>), <<"1">>>>),
           <<"2">>>>),
    Form(<<PLUS, <<"a">>, <<"1">>>>),
    Form(<<PLUS, <<"0", ".", "1">>, <<"0", ".", "2">>>>),
    Form(<<<<"f">>, <<"1">>>>),
    Form(<<<<"f">>, <<"1">>, <<"2">>>>),
    Form(<<<<"g">>, <<"5">>>>),
    Form(<<<<"h">>, <<"3">>>>),
    Form(<<<<"r">>, <<"1">>>>) }

ArgValues == {IntV(3)}

(***************************************************************************)
(* The read-eval-print loop (interpreter.py:3-17) and, beside it, direct   *)
(* calls of the Lambdas it has bound (Lambda.__call__, scheme.py:25-26).   *)
(***************************************************************************)
NoParse == [err |-> "unset", words |-> <<>>]
NoResult == [err |-> "unset", val |-> NoneV]
NoCall == [t |-> "unset", self |-> NoneV, arg_values |-> <<>>,
           err |-> "unset", val |-> NoneV]

Init ==
  /\ expr = <<>>
  /\ env = EmptyEnv
  /\ pc = "repl"
  /\ parsed = NoParse
  /\ result = NoResult
  /\ call = NoCall

\* the Lambda objects that are keys of the environment e
LambdaKeys(e) == {k \in DOMAIN e : k.t = "Lambda"}

\* one turn of the loop on the line e: the loop goes on after a value, a
\* SyntaxError or a ValueError, and any other exception ends the process
Repl(e) ==
  /\ pc = "repl"
  /\ \E r \in {evaluate(e, env, Begin(env))} :
       /\ r.err # Beyond
       /\ Cardinality(LambdaKeys(r.env)) <= MaxLambdaKeys
       /\ expr' = e
       /\ env' = Settle(r.env)
       /\ result' = [err |-> r.err, val |-> Settled(r.val, r.env)]
       /\ pc' = IF r.err \in {"none", "SyntaxError", "ValueError"}
                THEN "repl" ELSE "crashed"
  /\ call' = NoCall
  /\ UNCHANGED parsed

\* end of input: the loop prints its farewell and exits
Eof ==
  /\ pc = "repl"
  /\ pc' = "exited"
  /\ UNCHANGED <<expr, env, parsed, result, call>>

\* self(arg_values, env) for a Lambda bound in env
Call(self, arg_values) ==
  /\ pc = "repl"
  /\ \E r \in {LambdaEvaluate(self, arg_values, env, Begin(env))} :
       /\ r.err # Beyond
       /\ env' = r.env
       /\ call' = [t |-> "called", self |-> self, arg_values |-> arg_values,
                   err |-> r.err, val |-> r.val]
  /\ expr' = <<>>
  /\ result' = NoResult
  /\ UNCHANGED <<pc, parsed>>

Next ==
  \/ \E e \in ReplInputs : Repl(e)
  \/ Eof
  \/ \E k \in DOMAIN env : \E n \in 0..MaxArgs : \E a \in [1..n -> ArgValues] :
       env[k].t = "Lambda" /\ Call(env[k], a)

Spec == Init /\ [][Next]_vars

(***************************************************************************)
(* parse and evaluate as functions: an input string and an environment are *)
(* drawn, parse is applied to the string, then evaluate.                   *)
(***************************************************************************)
InitPure ==
  /\ expr \in StringsUpTo(PureAlphabet, MaxLen)
  /\ env \in PureEnvs
  /\ pc = "input"
  /\ parsed = NoParse
  /\ result = NoResult
  /\ call = NoCall

Parse ==
  /\ pc = "input"
  /\ parsed' = parse(expr)
  /\ pc' = "parsed"
  /\ UNCHANGED <<expr, env, result, call>>

Evaluate ==
  /\ pc = "parsed"
  /\ \E r \in {evaluate(expr, env, Begin(env))} :
       /\ r.err # Beyond
       /\ env' = r.env
       /\ result' = [err |-> r.err, val |-> r.val]
  /\ pc' = "evaluated"
  /\ UNCHANGED <<expr, parsed, call>>

NextPure == Parse \/ Evaluate

SpecPure == InitPure /\ [][NextPure]_vars

(***************************************************************************)
(* Vocabulary of the properties.                                           *)
(***************************************************************************)
\* the concatenation of a list of strs
RECURSIVE Concat(_)
Concat(ws) == IF ws = <<>> THEN <<>> ELSE Head(ws) \o Concat(Tail(ws))

\* how many of the first k characters of s are c
Count(s, c, k) == Cardinality({i \in 1..k : s[i] = c})

\* balanced parentheses: as many "(" as ")", and no prefix with more ")"
Balanced(s) ==
  /\ Count(s, "(", Len(s)) = Count(s, ")", Len(s))
  /\ \A k \in 1..Len(s) : Count(s, ")", k) <= Count(s, "(", k)

\* the nesting depth at which character i of s stands, the parentheses
\* themselves standing inside their group
DepthAt(s, i) ==
  Count(s, "(", i) - Count(s, ")", i) + (IF s[i] = ")" THEN 1 ELSE 0)

\* s without its white space of depth 0, up to character k
RECURSIVE OuterSpaceRemoved(_, _)
OuterSpaceRemoved(s, k) ==
  IF k = 0 THEN <<>>
  ELSE IF s[k] \in skip_chars /\ DepthAt(s, k) = 0
       THEN OuterSpaceRemoved(s, k - 1)
       ELSE Append(OuterSpaceRemoved(s, k - 1), s[k])

\* a ")" that closes a group at depth 0 with a "(" right after it
Glued(s) ==
  \E i \in 1..(Len(s) - 1) :
    /\ s[i] = ")" /\ s[i + 1] = "("
    /\ Count(s, "(", i) = Count(s, ")", i)

\* the words of the interior of a function-call form (no words otherwise)
InteriorWords(s) ==
  IF Len(s) > 0 /\ is_function_call(s) THEN parse(strip(s).s).words ELSE <<>>

\* a step of the read-eval-print loop, and a direct call of a Lambda
ReplStep == pc = "repl" /\ pc' # "exited" /\ call' = NoCall
CallStep == pc = "repl" /\ pc' = "repl" /\ call'.t = "called"

Name_a == StrV(<<"a">>)
Lambda_f == Lambda(<< <<"x">> >>, Form(<<PLUS, <<"x">>, <<"a">>>>), <<1>>)
Lambda_g == Lambda(<< <<"a">> >>, Form(<<<<"f">>, <<"1">>>>), <<1>>)
Lambda_h == Lambda(<< <<"x">> >>, Form(<<DEFINE_SYM, <<"a">>, <<"x">>>>), <<1>>)

(***************************************************************************)
(* Properties of the word splitter and of evaluate as functions, checked   *)
(* under SpecPure.                                                         *)
(***************************************************************************)
\* C1: on every input whose parentheses are unbalanced, parse raises
\* SyntaxError and so does evaluate.
C1_UnbalancedRaises ==
  ~Balanced(expr) =>
    /\ pc \in {"parsed", "evaluated"} => parsed.err = "SyntaxError"
    /\ pc = "evaluated" => result.err = "SyntaxError"

\* C7: on every input whose parentheses are balanced, parse does not raise
\* and its words, concatenated in order, are the input without its white
\* space of depth 0.
C7_BalancedRoundTrip ==
  (pc \in {"parsed", "evaluated"} /\ Balanced(expr)) =>
    /\ parsed.err = "none"
    /\ Concat(parsed.words) = OuterSpaceRemoved(expr, Len(expr))

\* a balanced input parsed into several words, with white space at depth 0
\* and white space inside a group
C7_Witness ==
  /\ pc = "parsed"
  /\ Balanced(expr)
  /\ Len(parsed.words) >= 2
  /\ \E i \in 1..Len(expr) : expr[i] \in skip_chars /\ DepthAt(expr, i) = 0
  /\ \E i \in 1..Len(expr) : expr[i] \in skip_chars /\ DepthAt(expr, i) > 0

\* C9: when the interior of a function-call form splits into exactly one
\* word w (here a word of at least one character), evaluate gives what
\* evaluate(w, env) gives.
C9_SingleWordUnwrapped ==
  (/\ pc = "evaluated"
   /\ Len(InteriorWords(expr)) = 1
   /\ Len(InteriorWords(expr)[1]) > 0) =>
    \E r \in {evaluate(InteriorWords(expr)[1], env, Begin(env))} :
      result = [err |-> r.err, val |-> r.val]

\* C10, as the specification states it: parse raises SyntaxError on an input
\* in which two parenthesized groups are glued together.
C10_GluedRaises ==
  (pc \in {"parsed", "evaluated"} /\ Glued(expr)) => parsed.err = "SyntaxError"

\* C10, amended: on an input with two groups glued together, as on "(" and
\* ")" alone, parse raises SyntaxError exactly when the numbers of "(" and
\* of ")" differ; glued groups with balanced parentheses come out as
\* separate consecutive words.
C10_GluedSplit ==
  pc \in {"parsed", "evaluated"} =>
    /\ expr \in {<<"(">>, <<")">>} => parsed.err = "SyntaxError"
    /\ Glued(expr) =>
         /\ parsed.err = "SyntaxError"
              <=> Count(expr, "(", Len(expr)) # Count(expr, ")", Len(expr))
         /\ Balanced(expr) =>
              \E k \in 1..(Len(parsed.words) - 1) :
                /\ parsed.words[k][Len(parsed.words[k])] = ")"
                /\ parsed.words[k + 1][1] = "("

\* two complete groups glued together, parsed into two words
C10_Witness ==
  /\ pc = "parsed"
  /\ Glued(expr) /\ Balanced(expr)
  /\ parsed.err = "none"
  /\ Len(parsed.words) = 2

(***************************************************************************)
(* Properties of the evaluator in the read-eval-print loop, checked under  *)
(* Spec.                                                                   *)
(***************************************************************************)
\* C2: after evaluate("(define n e)", env) with a name n that
\* is_valid_variable_name accepts has returned v, evaluate("n", env) returns v.
C2_DefineThenLookup ==
  LET w == InteriorWords(expr)
  IN (/\ pc = "repl"
      /\ Len(w) = 3
      /\ w[1] = DEFINE_SYM
      /\ ~is_function_call(w[2])
      /\ is_valid_variable_name(w[2])
      /\ result.err = "none") =>
       \E r \in {evaluate(w[2], env, Begin(env))} :
         r.err = "none" /\ r.val = result.val

\* C3: the environment of the loop, which starts without them, never has a
\* Builtin symbol as a key.
C3_NoBuiltinKey == \A b \in BUILTIN_OPS : StrV(b) \notin DOMAIN env

\* C4: a Lambda called with a number of values other than its number of
\* parameters fails with ValueError; otherwise the outcome is that of its body
\* in the environment of the call extended with the parameters bound to the
\* values, a parameter shadowing a key of that environment.  So in the loop,
\* with f and g bound as below, (g 5) is 6: the a of f's body is g's parameter.
C4_ClosureCall ==
  [][ /\ CallStep =>
           LET self == call'.self
               vals == call'.arg_values
               params == {StrV(self.args[i]) : i \in 1..Len(self.args)}
               extended ==
                 [k \in DOMAIN env \cup params |->
                    IF k \in params
                    THEN vals[CHOOSE i \in 1..Len(self.args) : StrV(self.args[i]) = k]
                    ELSE env[k]]
           IN IF Len(vals) # Len(self.args)
              THEN call'.err = "ValueError"
              ELSE \E r \in {evaluate(self.expression, extended,
                                       BodyFrame(Begin(env), self, vals, env))} :
                     call'.err = r.err /\ call'.val = r.val
      /\ (/\ ReplStep
          /\ expr' = Form(<<<<"g">>, <<"5">>>>)
          /\ Name_a \in DOMAIN env
          /\ StrV(<<"f">>) \in DOMAIN env /\ env[StrV(<<"f">>)] = Lambda_f
          /\ StrV(<<"g">>) \in DOMAIN env /\ env[StrV(<<"g">>)] = Lambda_g)
           => result' = [err |-> "none", val |-> IntV(6)]
    ]_vars

\* g, whose parameter a is also a key of the environment, called with one
\* value while f is bound: f's body reads the a of the call, 1 + 3
C4_Witness ==
  /\ call.t = "called"
  /\ call.self = Lambda_g
  /\ Len(call.arg_values) = 1
  /\ Name_a \in DOMAIN env /\ env[Name_a] # call.arg_values[1]
  /\ call.err = "none"
  /\ call.val = IntV(4)

\* C5: a call of a Lambda, returning or failing, leaves the environment it
\* was given with the keys and values it had; so does the loop's evaluation
\* of a call (name literal ...) of a Lambda bound to name.
C5_CallerEnvUnchanged ==
  [][ /\ CallStep => env' = env
      /\ (/\ ReplStep
          /\ Len(InteriorWords(expr')) >= 2
          /\ StrV(InteriorWords(expr')[1]) \in DOMAIN env
          /\ env[StrV(InteriorWords(expr')[1])].t = "Lambda"
          /\ \A i \in 2..Len(InteriorWords(expr')) :
               is_numeric_literal(InteriorWords(expr')[i]))
           => env' = env
    ]_vars

\* h, whose body is (define a x), has been called and has returned the value
\* it bound, and the environment of the call has no such binding of a
C5_Witness ==
  /\ call.t = "called"
  /\ call.self = Lambda_h
  /\ call.err = "none"
  /\ (Name_a \notin DOMAIN env \/ env[Name_a] # call.val)

\* C6: a define form with a number of operands other than two fails with
\* SyntaxError and leaves the environment unchanged.
C6_DefineArity ==
  [][ (/\ ReplStep
       /\ Len(InteriorWords(expr')) >= 1
       /\ InteriorWords(expr')[1] = DEFINE_SYM
       /\ Len(InteriorWords(expr')) # 3)
        => (result'.err = "SyntaxError" /\ env' = env)
    ]_vars

\* C8: evaluate returns a value or fails with SyntaxError, ValueError or
\* TypeError, and with no other kind of error.
C8_ClassifiedErrors ==
  result.err \in {"unset", "none", "SyntaxError", "ValueError", "TypeError"}

====
